---- MODULE Spec2Model ----
(***************************************************************************)
(* A model of the email JSON extractor: EmailController.extractJson and    *)
(* EmailService (processEmail, getEmailContent, extractJsonFromAttachments,*)
(* isJsonAttachment, extractJsonFromLinks, checkLinkForJson,               *)
(* extractJsonFromHtmlPage).                                               *)
(*                                                                         *)
(* One behaviour of the model is one request.  The request's inputs (the   *)
(* query, the file system's answer, the decoded mail, every HTTP reply)    *)
(* are drawn from the small pools below at the step that reads them.       *)
(*                                                                         *)
(* Strings are sequences of chunks: a chunk is a run of characters that no *)
(* operation of the program splits ("https://", ".json", "?").  startsWith,*)
(* endsWith, includes, toLowerCase and split are computed on the chunks.   *)
(* undefined and '' are both the empty sequence wherever the program only  *)
(* tests the value for truthiness.                                         *)
(***************************************************************************)
EXTENDS Integers, Sequences, FiniteSets, TLC

(***************************************************************************)
(* Bounds of the model.                                                    *)
(***************************************************************************)
MaxAttachments == 2
MaxHtmlLinks == 2
MaxTextWords == 1
MaxPageLinks == 2

\* All sequences over S of length at most n.
SeqsUpTo(S, n) == UNION {[1..k -> S] : k \in 0..n}

(***************************************************************************)
(* String operations, on chunk sequences.                                  *)
(***************************************************************************)
StartsWith(s, p) == Len(s) >= Len(p) /\ SubSeq(s, 1, Len(p)) = p

EndsWith(s, p) == Len(s) >= Len(p) /\ SubSeq(s, Len(s) - Len(p) + 1, Len(s)) = p

Includes(s, p) == \E i \in 1..(Len(s) - Len(p) + 1) : SubSeq(s, i, i + Len(p) - 1) = p

LowerChunk(c) ==
  CASE c = ".JSON" -> ".json"
    [] c = "Application/JSON" -> "application/json"
    [] c = "DATA" -> "data"
    [] OTHER -> c

ToLowerCase(s) == [i \in 1..Len(s) |-> LowerChunk(s[i])]

\* s.split(sep)[0]: the part of s before the first chunk sep (all of s if none).
SplitFirst(s, sep) ==
  IF \E i \in 1..Len(s) : s[i] = sep
  THEN SubSeq(s, 1, (CHOOSE i \in 1..Len(s) : s[i] = sep /\ \A j \in 1..(i - 1) : s[j] # sep) - 1)
  ELSE s

\* add() of a list that keeps what is already there.
AddAll_NoDedup(set, xs) == set \o xs

\* Set<string> filled by add() in the order of xs: first occurrences, in order.
RECURSIVE AddAll(_, _)
AddAll(set, xs) ==
  IF xs = <<>> THEN set
  ELSE AddAll(IF \E i \in 1..Len(set) : set[i] = Head(xs) THEN set ELSE Append(set, Head(xs)),
              Tail(xs))

(***************************************************************************)
(* JavaScript values: t is the value's type, v its text.                   *)
(***************************************************************************)
JsNull == [t |-> "null", v |-> "null"]

JsString(txt) == [t |-> "string", v |-> txt]

\* JavaScript truthiness, as tested by `if (x)`.
Truthy(x) ==
  CASE x.t = "null" -> FALSE
    [] x.t = "boolean" -> x.v = "true"
    [] x.t = "number" -> x.v # "0"
    [] x.t = "string" -> x.v # ""
    [] OTHER -> TRUE

\* typeof x === 'object' (true of null, objects and arrays).
TypeofObject(x) == x.t \in {"object", "array", "null"}

\* The texts JSON.parse accepts, and the others (on which it throws).
JsonTexts == {"{\"a\":1}", "{\"ok\":true}", "[1,2,3]", "null", "false", "true", "0", "5", "\"\"", "\"x\""}

CanParse(txt) == txt \in JsonTexts

JsonParse(txt) ==
  CASE txt \in {"{\"a\":1}", "{\"ok\":true}"} -> [t |-> "object", v |-> txt]
    [] txt = "[1,2,3]" -> [t |-> "array", v |-> txt]
    [] txt = "null" -> JsNull
    [] txt \in {"false", "true"} -> [t |-> "boolean", v |-> txt]
    [] txt \in {"0", "5"} -> [t |-> "number", v |-> txt]
    [] txt = "\"\"" -> JsString("")
    [] txt = "\"x\"" -> JsString("x")

(***************************************************************************)
(* Input pools.                                                            *)
(***************************************************************************)
\* A remote source and a local one; <<>> is a parameter that is absent or ''.
RemoteSource == <<"https://", "h", "/", "mail", ".eml">>
LocalSource == <<"test/fixtures/", "attachment", ".eml">>
HttpSource == <<"http://", "h", "/", "mail", ".eml">>
SourceStrings == {<<>>, RemoteSource, LocalSource}
\* The http:// source comes as path only, so that it is known which parameter
\* carried it.
Queries == [url : SourceStrings, path : SourceStrings \cup {HttpSource}]

\* Attachments of the decoded mail: { contentType, filename, content }.
ContentTypes == {<<"application/json">>, <<"text/plain">>}
Filenames == {<<>>, <<"DATA", ".JSON">>}
Contents == {"{\"a\":1}", "[1,2,3]", "0", "5", "not valid json"}
AttachmentPool == [contentType : ContentTypes, filename : Filenames, content : Contents]

\* href attributes of the <a> elements of the mail's HTML body (<<>>: no href).
JsonLink == <<"https://", "h", "/", "a", ".json">>
PageLink == <<"https://", "h", "/", "landing">>
MailtoLink == <<"mailto:", "x@y">>
AnchorLink == <<"#", "top">>
BodyHrefs == {JsonLink, PageLink, MailtoLink, AnchorLink, <<>>}
\* parsed.html: false, or a document with these anchors.
HtmlBodies ==
  {[present |-> FALSE, hrefs |-> <<>>]}
    \cup {[present |-> TRUE, hrefs |-> h] : h \in SeqsUpTo(BodyHrefs, MaxHtmlLinks)}

\* Whitespace-separated words of the mail's plain-text body.
TextWords == {<<"see">>, <<"Link:", "https://", "h", "/", "a", ".json">>}
TextBodies == SeqsUpTo(TextWords, MaxTextWords)

\* href attributes of the <a> elements of a fetched page.
PageHrefs == {<<"data", "/", "export", ".json", "?", "v=2">>,
              <<"/", "assets", "/", "out", ".JSON">>,
              <<"/", "about">>,
              <<"https://">>}
PageAnchorLists == SeqsUpTo(PageHrefs, MaxPageLinks)

\* What the network can answer to a GET: a transport error, silence until the
\* request's timeout, or a response.  body is the response's text.
HeaderValues == {<<"application/json">>, <<"text/html", "; charset=utf-8">>, <<>>}
BodyTexts == {"{\"a\":1}", "null", "<html>"}
Responses ==
  [what : {"response"}, status : {200}, contentType : HeaderValues, body : BodyTexts]
    \cup {[what |-> "response", status |-> 201, contentType |-> <<"application/json">>,
           body |-> "{\"a\":1}"],
          [what |-> "response", status |-> 404, contentType |-> <<"text/html", "; charset=utf-8">>,
           body |-> "<html>"]}
NetworkError == [what |-> "error", status |-> 0, contentType |-> <<>>, body |-> ""]
TimeoutError == [what |-> "timeout", status |-> 0, contentType |-> <<>>, body |-> ""]
Replies == Responses \cup {NetworkError, TimeoutError}

\* axios timeouts in ms; 0 is axios's default, no timeout.
NoTimeout == 0
LinkTimeoutMs == 5000
PageTimeoutMs == 5000

NoRequest == [url |-> <<>>, kind |-> "none", timeout |-> 0]
NoOutcome == [kind |-> "none", by |-> "none", value |-> JsNull]
NoQuery == [url |-> <<>>, path |-> <<>>]

(***************************************************************************)
(* Pure functions of the service.                                          *)
(***************************************************************************)
\* EmailService.isJsonAttachment
IsJsonAttachment(attachment) ==
  LET contentType == ToLowerCase(attachment.contentType)
      filename == IF attachment.filename # <<>> THEN ToLowerCase(attachment.filename) ELSE <<>>
  IN  Includes(contentType, <<"application/json">>) \/ EndsWith(filename, <<".json">>)

\* The for loop of extractJsonFromAttachments, from attachment i on.  json is
\* the value returned (null for "no match"), warnings the number of parse
\* failures logged with logger.warn.
RECURSIVE ScanFrom(_, _, _)
ScanFrom(atts, i, warnings) ==
  IF i > Len(atts) THEN [json |-> JsNull, warnings |-> warnings]
  ELSE IF IsJsonAttachment(atts[i])
       THEN IF CanParse(atts[i].content)
            THEN [json |-> JsonParse(atts[i].content), warnings |-> warnings]
            ELSE ScanFrom(atts, i + 1, warnings + 1)
       ELSE ScanFrom(atts, i + 1, warnings)

\* extractJsonFromAttachments, were the scan to stop at the first JSON-typed
\* attachment whatever its parse gives.
ExtractJsonFromAttachments_NoFallthrough(atts) ==
  IF \E i \in 1..Len(atts) : IsJsonAttachment(atts[i])
  THEN LET f == CHOOSE i \in 1..Len(atts) :
                  IsJsonAttachment(atts[i]) /\ \A j \in 1..(i - 1) : ~IsJsonAttachment(atts[j])
       IN  IF CanParse(atts[f].content)
           THEN [json |-> JsonParse(atts[f].content), warnings |-> 0]
           ELSE [json |-> JsNull, warnings |-> 1]
  ELSE [json |-> JsNull, warnings |-> 0]

\* EmailService.extractJsonFromAttachments
ExtractJsonFromAttachments(atts) == ScanFrom(atts, 1, 0)

\* $('a').each(... if (href) links.add(href)) on a document with these anchors.
RECURSIVE AddHrefs(_, _)
AddHrefs(set, hrefs) ==
  IF hrefs = <<>> THEN set
  ELSE AddHrefs(IF Head(hrefs) # <<>> THEN AddAll(set, <<Head(hrefs)>>) ELSE set, Tail(hrefs))

\* The match of /(https?:\/\/[^\s]+)/ in one word: from the first "http://" or
\* "https://" to the end of the word; <<>> if the word holds none.
UrlMatch(word) ==
  IF \E i \in 1..Len(word) : word[i] \in {"http://", "https://"}
  THEN LET k == CHOOSE i \in 1..Len(word) :
                  /\ word[i] \in {"http://", "https://"}
                  /\ \A j \in 1..(i - 1) : word[j] \notin {"http://", "https://"}
       IN  IF k < Len(word) THEN SubSeq(word, k, Len(word)) ELSE <<>>
  ELSE <<>>

\* text.match(urlRegex): the matches of the words, in order.
RECURSIVE TextMatches(_)
TextMatches(words) ==
  IF words = <<>> THEN <<>>
  ELSE (IF UrlMatch(Head(words)) # <<>> THEN <<UrlMatch(Head(words))>> ELSE <<>>)
         \o TextMatches(Tail(words))

\* The Set built by extractJsonFromLinks from parsed.html and parsed.text.
HarvestLinks(html, text) ==
  LET fromHtml == IF html.present THEN AddHrefs(<<>>, html.hrefs) ELSE <<>>
  IN  IF text # <<>> THEN AddAll(fromHtml, TextMatches(text)) ELSE fromHtml

\* The `continue` test, were it to forget the internal anchors.
IsSkippedLink_MailtoOnly(link) == StartsWith(link, <<"mailto:">>)

\* The `continue` test of extractJsonFromLinks.
IsSkippedLink(link) == StartsWith(link, <<"mailto:">>) \/ StartsWith(link, <<"#">>)

\* axios's default transformResponse: a non-empty body that parses as JSON is
\* replaced by the parsed value, any other body stays a string.
AxiosData(body) == IF body # "" /\ CanParse(body) THEN JsonParse(body) ELSE JsString(body)

\* new URL(link, baseUrl) throws: a scheme with no host.
UrlThrows(link) == Len(link) = 1 /\ link[1] \in {"http://", "https://"}

\* new URL(link, baseUrl).toString(), baseUrl an absolute http(s) URL with a path.
ResolveUrl(link, baseUrl) ==
  LET base == SplitFirst(SplitFirst(baseUrl, "#"), "?")
      lastSlash == CHOOSE i \in 1..Len(base) : base[i] = "/" /\ \A j \in (i + 1)..Len(base) : base[j] # "/"
  IN  CASE link = <<>> -> SplitFirst(baseUrl, "#")
        [] Head(link) \in {"http://", "https://", "mailto:"} -> link
        [] Head(link) = "/" -> SubSeq(baseUrl, 1, 2) \o link
        [] Head(link) = "#" -> SplitFirst(baseUrl, "#") \o link
        [] Head(link) = "?" -> base \o link
        [] OTHER -> SubSeq(base, 1, lastSlash) \o link

\* The heuristic, without split('?')[0].
LooksLikeJson_NoSplit(absoluteUrl) == EndsWith(ToLowerCase(absoluteUrl), <<".json">>)

\* The heuristic of extractJsonFromHtmlPage: it looks like a json file.
LooksLikeJson(absoluteUrl) ==
  \E url \in {absoluteUrl} :
    \E lower \in {ToLowerCase(url)} :
      \E first \in {SplitFirst(lower, "?")} : EndsWith(first, <<".json">>)

(***************************************************************************)
(* The state of one request.                                               *)
(***************************************************************************)
VARIABLES
  pc,             \* where the request is
  query,          \* the controller's @Query(): url and path
  source,         \* processEmail's argument
  fsLog,          \* the calls made to fs, in order
  gets,           \* the GETs issued with axios, in order: [url, kind]
  inflight,       \* the GET being awaited
  lastReply,      \* what the awaited GET ended with, if the last step handled that
  drawn,          \* what the last step read of the mail, the file system or a page
  attachments,    \* parsed.attachments
  attachmentJson, \* processEmail's attachmentJson
  warnings,       \* the number of logger.warn calls of the attachment scan
  links,          \* extractJsonFromLinks's Set, in insertion order
  linkIdx,        \* the position of its for loop
  resolved,       \* the values checkLinkForJson returned, in order: [link, result]
  pageBase,       \* extractJsonFromHtmlPage's baseUrl
  pageLinks,      \* its Set, in insertion order
  pageIdx,        \* the position of its for loop
  outcome         \* what the request ended with

vars == <<pc, query, source, fsLog, gets, inflight, lastReply, drawn, attachments, attachmentJson, warnings,
          links, linkIdx, resolved, pageBase, pageLinks, pageIdx, outcome>>

mailVars == <<attachments, attachmentJson, warnings>>
linkVars == <<links, linkIdx, resolved>>
pageVars == <<pageBase, pageLinks, pageIdx>>
netVars == <<gets, inflight>>
NoReply == [what |-> "none", status |-> 0, contentType |-> <<>>, body |-> ""]
NoInput == [what |-> "none", v |-> <<>>]

Init ==
  /\ pc = "extractJson"
  /\ query \in Queries
  /\ source = <<>>
  /\ fsLog = <<>>
  /\ gets = <<>>
  /\ inflight = NoRequest
  /\ lastReply = NoReply
  /\ drawn = NoInput
  /\ attachments = <<>>
  /\ attachmentJson = JsNull
  /\ warnings = 0
  /\ links = <<>>
  /\ linkIdx = 0
  /\ resolved = <<>>
  /\ pageBase = <<>>
  /\ pageLinks = <<>>
  /\ pageIdx = 0
  /\ outcome = NoOutcome

\* return value: the request ends with the JSON value.
Found(by, value) == [kind |-> "FOUND", by |-> by, value |-> value]
\* throw new NotFoundException(...) and throw new BadRequestException(...)
NotFoundException(by) == [kind |-> "NotFound", by |-> by, value |-> JsNull]
BadRequestException(by) == [kind |-> "BadRequest", by |-> by, value |-> JsNull]

\* The request ends: nothing of it runs afterwards.
End(o) == outcome' = o /\ pc' = "done"

\* await axios.get(url, { timeout }): the request goes out and the caller waits.
Get(url, kind, timeout, at) ==
  /\ gets' = Append(gets, [url |-> url, kind |-> kind])
  /\ inflight' = [url |-> url, kind |-> kind, timeout |-> timeout]
  /\ pc' = at

\* The awaited GET can end with r: the timeout only if the request has one.
CanEndWith(r) == r.what = "timeout" => inflight.timeout > 0

(***************************************************************************)
(* EmailController.extractJson                                             *)
(***************************************************************************)
\* query.url || query.path
SourceOf(q) == IF q.url # <<>> THEN q.url ELSE q.path

\* extractJson, were it to pass the source on without the `if (!source)` test.
ExtractJson_NoCheck ==
  /\ pc = "extractJson"
  /\ lastReply' = NoReply
  /\ drawn' = NoInput
  /\ source' = SourceOf(query)
  /\ pc' = "getEmailContent"
  /\ query' = NoQuery
  /\ UNCHANGED <<outcome, fsLog, netVars, mailVars, linkVars, pageVars>>

\* query is the handler's local: it is not read after this step.
ExtractJson ==
  /\ pc = "extractJson"
  /\ lastReply' = NoReply
  /\ drawn' = NoInput
  /\ IF SourceOf(query) = <<>>
     THEN End(BadRequestException("controller")) /\ UNCHANGED <<source, query>>
     ELSE source' = SourceOf(query) /\ pc' = "getEmailContent" /\ query' = NoQuery
          /\ UNCHANGED outcome
  /\ UNCHANGED <<fsLog, netVars, mailVars, linkVars, pageVars>>

(***************************************************************************)
(* EmailService.getEmailContent                                            *)
(***************************************************************************)
\* The test of the source, were it to know https:// only.
IsRemote_HttpsOnly(src) == StartsWith(src, <<"https://">>)

IsRemote(src) == StartsWith(src, <<"http://">>) \/ StartsWith(src, <<"https://">>)

\* The timeout the source's axios.get is given: none.
SourceTimeout == NoTimeout

GetEmailContentRemote ==
  /\ pc = "getEmailContent"
  /\ lastReply' = NoReply
  /\ drawn' = NoInput
  /\ IsRemote(source)
  /\ Get(source, "source", SourceTimeout, "awaitSource")
  /\ UNCHANGED <<query, source, fsLog, mailVars, linkVars, pageVars, outcome>>

\* The file system answers existsSync, and readFileSync returns or throws.
GetEmailContentLocal ==
  /\ pc = "getEmailContent"
  /\ lastReply' = NoReply
  /\ ~IsRemote(source)
  /\ \E exists \in BOOLEAN, readable \in BOOLEAN :
       /\ exists \/ ~readable
       /\ drawn' = [what |-> "fs", v |-> [exists |-> exists, readable |-> readable]]
       /\ IF ~exists
          THEN fsLog' = fsLog \o <<"existsSync">> /\ End(NotFoundException("getEmailContent"))
          ELSE /\ fsLog' = fsLog \o <<"existsSync", "readFileSync">>
               /\ IF readable THEN pc' = "simpleParser" /\ UNCHANGED outcome
                  ELSE End(BadRequestException("getEmailContent"))
  /\ UNCHANGED <<query, source, netVars, mailVars, linkVars, pageVars>>

\* axios's default validateStatus: a status outside 2xx rejects the promise.
DefaultValidateStatus(status) == status >= 200 /\ status < 300

\* The await of the source GET, were a failure to leave the request running.
SourceReply_Swallow(r) ==
  /\ pc = "awaitSource"
  /\ lastReply' = r
  /\ drawn' = NoInput
  /\ CanEndWith(r)
  /\ pc' = "simpleParser"
  /\ inflight' = NoRequest
  /\ UNCHANGED <<query, source, fsLog, gets, mailVars, linkVars, pageVars, outcome>>

\* The awaited source GET ends with r.
SourceReply(r) ==
  /\ pc = "awaitSource"
  /\ lastReply' = r
  /\ drawn' = NoInput
  /\ CanEndWith(r)
  /\ IF r.what = "response" /\ DefaultValidateStatus(r.status)
     THEN pc' = "simpleParser" /\ UNCHANGED outcome
     ELSE End(BadRequestException("getEmailContent"))
  /\ inflight' = NoRequest
  /\ UNCHANGED <<query, source, fsLog, gets, mailVars, linkVars, pageVars>>

(***************************************************************************)
(* EmailService.processEmail                                               *)
(***************************************************************************)
\* simpleParser(emailBuffer) throws, or returns the decoded mail.
SimpleParser ==
  /\ pc = "simpleParser"
  /\ lastReply' = NoReply
  /\ \/ /\ drawn' = [what |-> "mail", v |-> [throws |-> TRUE, attachments |-> <<>>]]
        /\ End(BadRequestException("simpleParser")) /\ UNCHANGED attachments
     \/ /\ \E atts \in SeqsUpTo(AttachmentPool, MaxAttachments) :
             /\ drawn' = [what |-> "mail", v |-> [throws |-> FALSE, attachments |-> atts]]
             /\ attachments' = atts
        /\ pc' = "attachments"
        /\ UNCHANGED outcome
  /\ UNCHANGED <<query, source, fsLog, netVars, attachmentJson, warnings, linkVars, pageVars>>

\* if (attachmentJson)
AttachmentFound(json) == Truthy(json)

\* Strategy 1, were a parse failure of an attachment to be thrown to the caller.
CheckAttachments_Rethrow ==
  /\ pc = "attachments"
  /\ lastReply' = NoReply
  /\ drawn' = NoInput
  /\ LET r == ExtractJsonFromAttachments(attachments)
     IN  /\ attachmentJson' = r.json
         /\ warnings' = r.warnings
         /\ IF r.warnings > 0
            THEN End(BadRequestException("extractJsonFromAttachments")) /\ UNCHANGED attachments
            ELSE IF AttachmentFound(r.json)
                 THEN End(Found("attachments", r.json)) /\ UNCHANGED attachments
                 ELSE pc' = "extractJsonFromLinks" /\ attachments' = <<>> /\ UNCHANGED outcome
  /\ UNCHANGED <<query, source, fsLog, netVars, linkVars, pageVars>>

\* Strategy 1: extractJsonFromAttachments(parsed), then the test of its value.
\* parsed.attachments is not read again when the request goes on to the links,
\* and is dropped.
CheckAttachments ==
  /\ pc = "attachments"
  /\ lastReply' = NoReply
  /\ drawn' = NoInput
  /\ LET r == ExtractJsonFromAttachments(attachments)
     IN  /\ attachmentJson' = r.json
         /\ warnings' = r.warnings
         /\ IF AttachmentFound(r.json)
            THEN End(Found("attachments", r.json)) /\ UNCHANGED attachments
            ELSE pc' = "extractJsonFromLinks" /\ attachments' = <<>> /\ UNCHANGED outcome
  /\ UNCHANGED <<query, source, fsLog, netVars, linkVars, pageVars>>

(***************************************************************************)
(* EmailService.extractJsonFromLinks                                       *)
(***************************************************************************)
\* The harvest: parsed.html and parsed.text are read here for the first time, so
\* the decoded mail's bodies are drawn here.
ExtractJsonFromLinks ==
  /\ pc = "extractJsonFromLinks"
  /\ lastReply' = NoReply
  /\ \E html \in HtmlBodies, text \in TextBodies :
       /\ drawn' = [what |-> "bodies", v |-> [html |-> html, text |-> text]]
       /\ links' = HarvestLinks(html, text)
  /\ linkIdx' = 1
  /\ pc' = "links"
  /\ UNCHANGED <<query, source, fsLog, netVars, mailVars, resolved, pageVars, outcome>>

\* The test of the link's result, negated.
LinkFound_Negated(result) == ~Truthy(result)

\* if (result) return result, and processEmail's if (linkJson)
LinkFound(result) == Truthy(result)

\* checkLinkForJson(link) returns result to the loop of extractJsonFromLinks.
Resolved(result) ==
  /\ resolved' = Append(resolved, [link |-> links[linkIdx], result |-> result])
  /\ IF LinkFound(result)
     THEN End(Found("links", result)) /\ UNCHANGED linkIdx
     ELSE pc' = "links" /\ linkIdx' = linkIdx + 1 /\ UNCHANGED outcome
  /\ pageBase' = <<>>
  /\ pageLinks' = <<>>
  /\ pageIdx' = 0
  /\ UNCHANGED links

\* The for loop over the links is over: return null, and processEmail throws.
LinkLoopEnd ==
  /\ pc = "links"
  /\ lastReply' = NoReply
  /\ drawn' = NoInput
  /\ linkIdx > Len(links)
  /\ End(NotFoundException("processEmail"))
  /\ UNCHANGED <<query, source, fsLog, netVars, mailVars, linkVars, pageVars>>

\* The loop, were it free to pass over any link.
LinkLoopSkip_Any ==
  /\ pc = "links"
  /\ lastReply' = NoReply
  /\ drawn' = NoInput
  /\ linkIdx <= Len(links)
  /\ linkIdx' = linkIdx + 1
  /\ UNCHANGED <<pc, query, source, fsLog, netVars, mailVars, links, resolved, pageVars, outcome>>

\* Skip mailto links or internal anchors.
LinkLoopSkip ==
  /\ pc = "links"
  /\ lastReply' = NoReply
  /\ drawn' = NoInput
  /\ linkIdx <= Len(links)
  /\ IsSkippedLink(links[linkIdx])
  /\ linkIdx' = linkIdx + 1
  /\ UNCHANGED <<pc, query, source, fsLog, netVars, mailVars, links, resolved, pageVars, outcome>>

\* checkLinkForJson(link), up to its await.
CheckLinkForJson ==
  /\ pc = "links"
  /\ lastReply' = NoReply
  /\ drawn' = NoInput
  /\ linkIdx <= Len(links)
  /\ ~IsSkippedLink(links[linkIdx])
  /\ Get(links[linkIdx], "link", LinkTimeoutMs, "awaitLink")
  /\ UNCHANGED <<query, source, fsLog, mailVars, linkVars, pageVars, outcome>>

(***************************************************************************)
(* EmailService.checkLinkForJson, after its await                          *)
(***************************************************************************)
\* response.headers['content-type'] || ''
ContentTypeOf(r) == r.contentType

\* Case: Direct JSON
IsDirectJson(r) ==
  \/ Includes(ContentTypeOf(r), <<"application/json">>)
  \/ (TypeofObject(AxiosData(r.body)) /\ AxiosData(r.body) # JsNull)

\* The indirect case, without the test of the content-type.
IsHtmlPage_AnyType(r) == AxiosData(r.body).t = "string"

\* Case: Indirect Link (HTML page)
IsHtmlPage(r) == Includes(ContentTypeOf(r), <<"text/html">>) /\ AxiosData(r.body).t = "string"

\* What the link's GET ended with makes checkLinkForJson return null: the GET
\* threw (validateStatus accepts every status), or status !== 200, or neither
\* case applies.
LinkNoMatch(r) ==
  \/ r.what # "response"
  \/ r.status # 200
  \/ ~IsDirectJson(r) /\ ~IsHtmlPage(r)

\* The awaited link GET ends with r, were checkLinkForJson without its
\* try/catch: a GET that throws ends the request.
LinkReply_Uncaught(r) ==
  /\ pc = "awaitLink"
  /\ lastReply' = r
  /\ CanEndWith(r)
  /\ inflight' = NoRequest
  /\ IF r.what # "response"
     THEN /\ End(BadRequestException("checkLinkForJson")) /\ UNCHANGED <<linkVars, pageVars>>
          /\ drawn' = NoInput
     ELSE IF LinkNoMatch(r)
          THEN Resolved(JsNull) /\ drawn' = NoInput
          ELSE IF IsDirectJson(r)
               THEN Resolved(AxiosData(r.body)) /\ drawn' = NoInput
               ELSE /\ \E anchors \in PageAnchorLists :
                         /\ drawn' = [what |-> "page", v |-> anchors]
                         /\ pageLinks' = AddHrefs(<<>>, anchors)
                    /\ pageBase' = links[linkIdx]
                    /\ pageIdx' = 1
                    /\ pc' = "page"
                    /\ UNCHANGED <<linkVars, outcome>>
  /\ UNCHANGED <<query, source, fsLog, gets, mailVars>>

\* The awaited link GET ends with r.
LinkReply(r) ==
  /\ pc = "awaitLink"
  /\ lastReply' = r
  /\ CanEndWith(r)
  /\ inflight' = NoRequest
  /\ IF LinkNoMatch(r)
     THEN Resolved(JsNull) /\ drawn' = NoInput
     ELSE IF IsDirectJson(r)
          THEN Resolved(AxiosData(r.body)) /\ drawn' = NoInput
          ELSE \* extractJsonFromHtmlPage(response.data, url): the page's anchors are read
               /\ \E anchors \in PageAnchorLists :
                    /\ drawn' = [what |-> "page", v |-> anchors]
                    /\ pageLinks' = AddHrefs(<<>>, anchors)
               /\ pageBase' = links[linkIdx]
               /\ pageIdx' = 1
               /\ pc' = "page"
               /\ UNCHANGED <<linkVars, outcome>>
  /\ UNCHANGED <<query, source, fsLog, gets, mailVars>>

(***************************************************************************)
(* EmailService.extractJsonFromHtmlPage                                    *)
(***************************************************************************)
\* The for loop over the page's links is over: return null.
PageLoopEnd ==
  /\ pc = "page"
  /\ lastReply' = NoReply
  /\ drawn' = NoInput
  /\ pageIdx > Len(pageLinks)
  /\ Resolved(JsNull)
  /\ UNCHANGED <<query, source, fsLog, netVars, mailVars>>

\* new URL throws, or the URL does not look like a json file: the next link.
PageLoopSkip ==
  /\ pc = "page"
  /\ lastReply' = NoReply
  /\ drawn' = NoInput
  /\ pageIdx <= Len(pageLinks)
  /\ \/ UrlThrows(pageLinks[pageIdx])
     \/ ~LooksLikeJson(ResolveUrl(pageLinks[pageIdx], pageBase))
  /\ pageIdx' = pageIdx + 1
  /\ UNCHANGED <<pc, query, source, fsLog, netVars, mailVars, linkVars, pageBase, pageLinks,
                 outcome>>

PageLoopGet ==
  /\ pc = "page"
  /\ lastReply' = NoReply
  /\ drawn' = NoInput
  /\ pageIdx <= Len(pageLinks)
  /\ ~UrlThrows(pageLinks[pageIdx])
  /\ LooksLikeJson(ResolveUrl(pageLinks[pageIdx], pageBase))
  /\ Get(ResolveUrl(pageLinks[pageIdx], pageBase), "page", PageTimeoutMs, "awaitPage")
  /\ UNCHANGED <<query, source, fsLog, mailVars, linkVars, pageVars, outcome>>

\* The GET threw: a transport error, the timeout, a status outside 2xx.
PageGetThrew(r) == r.what # "response" \/ ~DefaultValidateStatus(r.status)

\* The test of the page link's response, without the test of the status.
PageAccepts_AnyStatus(r) ==
  Includes(ContentTypeOf(r), <<"application/json">>) \/ TypeofObject(AxiosData(r.body))

\* The test of the page link's response.
PageAccepts(r) ==
  /\ r.status = 200
  /\ (Includes(ContentTypeOf(r), <<"application/json">>) \/ TypeofObject(AxiosData(r.body)))

\* The awaited page link GET ends with r.
PageReply(r) ==
  /\ pc = "awaitPage"
  /\ lastReply' = r
  /\ drawn' = NoInput
  /\ CanEndWith(r)
  /\ inflight' = NoRequest
  /\ IF ~PageGetThrew(r) /\ PageAccepts(r)
     THEN Resolved(AxiosData(r.body))
     ELSE /\ pageIdx' = pageIdx + 1
          /\ pc' = "page"
          /\ UNCHANGED <<linkVars, pageBase, pageLinks, outcome>>
  /\ UNCHANGED <<query, source, fsLog, gets, mailVars>>

(***************************************************************************)
(* The request.                                                            *)
(***************************************************************************)
Next ==
  \/ ExtractJson
  \/ GetEmailContentRemote
  \/ GetEmailContentLocal
  \/ \E r \in Replies : SourceReply(r)
  \/ SimpleParser
  \/ CheckAttachments
  \/ ExtractJsonFromLinks
  \/ LinkLoopEnd
  \/ LinkLoopSkip
  \/ CheckLinkForJson
  \/ \E r \in Replies : LinkReply(r)
  \/ PageLoopEnd
  \/ PageLoopSkip
  \/ PageLoopGet
  \/ \E r \in Replies : PageReply(r)

Spec == Init /\ [][Next]_vars

(***************************************************************************)
(* Statements about the request.                                           *)
(***************************************************************************)
\* The GETs of one kind, in the order they were issued.
GetsOf(kind) == SelectSeq(gets, LAMBDA g : g.kind = kind)

\* "mailto:..." or "#...".
IsMailtoOrAnchor(link) == StartsWith(link, <<"mailto:">>) \/ StartsWith(link, <<"#">>)

\* The links among the first n harvested that are neither mailto: nor # links.
Fetchable(n) == SelectSeq(SubSeq(links, 1, n), LAMBDA l : ~IsMailtoOrAnchor(l))

\* The request is in the link strategy, or has ended in it.
InLinkStrategy ==
  \/ pc \in {"extractJsonFromLinks", "links", "awaitLink", "page", "awaitPage"}
  \/ pc = "done" /\ outcome.by \in {"links", "processEmail"}

\* The JSON-typed attachments of the list, and those of them that parse.
JsonTyped(atts) == {i \in 1..Len(atts) : IsJsonAttachment(atts[i])}
JsonTypedParsing(atts) == {i \in JsonTyped(atts) : CanParse(atts[i].content)}
First(S) == CHOOSE i \in S : \A j \in S : i <= j

\* C1 (as claimed): whenever the attachment strategy produces a JSON value, that
\* value is the result of the request and the link strategies are never started:
\* no GET is issued to a link of the mail's body.
C1_AttachmentCandidateWins ==
  attachmentJson # JsNull =>
    /\ GetsOf("link") = <<>> /\ GetsOf("page") = <<>>
    /\ outcome.kind = "FOUND" => outcome = Found("attachments", attachmentJson)

\* C2 (as claimed): the attachment scan uses only the first JSON-typed attachment:
\* if its content fails to parse the scan reports "no match" and does not go on
\* to a later JSON-typed attachment.
C2_OnlyFirstJsonTyped ==
  [][(/\ pc = "attachments"
      /\ JsonTyped(attachments) # {}
      /\ ~CanParse(attachments[First(JsonTyped(attachments))].content))
       => (attachmentJson' = JsNull /\ warnings' = 1)]_vars

\* C2 (amended): the scan returns the parsed content of the first JSON-typed
\* attachment, in document order, whose content parses; every JSON-typed
\* attachment before it is logged as a parse failure and passed over; the scan
\* reports "no match" only when no JSON-typed attachment parses.
C2_FirstParsingJsonTyped ==
  [][pc = "attachments" =>
       LET typed == JsonTyped(attachments)
           parsing == JsonTypedParsing(attachments)
       IN  IF parsing = {}
           THEN attachmentJson' = JsNull /\ warnings' = Cardinality(typed)
           ELSE /\ attachmentJson' = JsonParse(attachments[First(parsing)].content)
                /\ warnings' = Cardinality({i \in typed : i < First(parsing)})]_vars

\* C2: a first JSON-typed attachment that does not parse, a later one that does,
\* and the later one's value returned.
C2_Witness ==
  /\ pc = "done" /\ outcome.by = "attachments"
  /\ Len(attachments) >= 2
  /\ IsJsonAttachment(attachments[1]) /\ ~CanParse(attachments[1].content)
  /\ IsJsonAttachment(attachments[2]) /\ CanParse(attachments[2].content)
  /\ outcome.value = JsonParse(attachments[2].content)
  /\ warnings = 1

\* C3 (as claimed): after a JSON-parse failure of a classified attachment the
\* request is not ended by an exception of the scan and the link strategy still
\* executes; with no usable link the outcome is NotFound.
C3_LinksAfterParseFailure ==
  warnings > 0 =>
    /\ InLinkStrategy
    /\ outcome.kind \in {"none", "FOUND", "NotFound"}
    /\ (pc = "done" /\ GetsOf("link") = <<>>) => outcome = NotFoundException("processEmail")

\* C3 (amended): a JSON-parse failure of a classified attachment is never raised
\* to the caller; unless a later attachment yields the request's result, the
\* link strategy executes afterwards, and with no usable link the outcome is
\* NotFound.
C3_ParseFailureNotFatal ==
  warnings > 0 =>
    /\ outcome.kind \in {"none", "FOUND", "NotFound"}
    /\ \/ /\ pc = "done" /\ outcome = Found("attachments", attachmentJson)
          /\ Truthy(attachmentJson)
          /\ JsonTypedParsing(attachments) # {}
          /\ First(JsonTypedParsing(attachments)) > First(JsonTyped(attachments))
       \/ /\ InLinkStrategy
          /\ (pc = "done" /\ GetsOf("link") = <<>>) => outcome = NotFoundException("processEmail")

\* C3: a parse failure was logged, the link strategy ran, the mail had no usable
\* link, and the request ended NotFound.
C3_Witness ==
  /\ warnings > 0
  /\ pc = "done" /\ outcome = NotFoundException("processEmail")
  /\ GetsOf("link") = <<>>

\* The number of harvested links the loop of extractJsonFromLinks has taken up.
LinksTaken ==
  CASE pc = "links" -> linkIdx - 1
    [] pc \in {"awaitLink", "page", "awaitPage"} -> linkIdx
    [] pc = "done" /\ outcome.by = "links" -> linkIdx
    [] pc = "done" /\ outcome.by = "processEmail" -> linkIdx - 1
    [] OTHER -> 0

UrlsOf(gs) == [i \in 1..Len(gs) |-> gs[i].url]
LinksOf(rs) == [i \in 1..Len(rs) |-> rs[i].link]

LinkGetFailed(r) == r.what \in {"error", "timeout"} \/ (r.what = "response" /\ r.status # 200)
PageGetFailed(r) ==
  r.what \in {"error", "timeout"} \/ (r.what = "response" /\ (r.status < 200 \/ r.status > 299))

\* C5: a failed GET of a top-level link, a failed GET of a chased page link and
\* a malformed URL on a chased page eliminate that candidate only: the request
\* does not end, and the loop stands at the next candidate.
C5_FailuresEliminateOneCandidate ==
  [][/\ (pc = "awaitLink" /\ LinkGetFailed(lastReply')) =>
          /\ outcome' = NoOutcome /\ pc' = "links"
          /\ linkIdx' = linkIdx + 1 /\ links' = links
          /\ resolved' = Append(resolved, [link |-> links[linkIdx], result |-> JsNull])
     /\ (pc = "awaitPage" /\ PageGetFailed(lastReply')) =>
          /\ outcome' = NoOutcome /\ pc' = "page"
          /\ pageIdx' = pageIdx + 1 /\ pageLinks' = pageLinks
          /\ linkIdx' = linkIdx /\ links' = links /\ resolved' = resolved
     /\ (pc = "page" /\ pageIdx <= Len(pageLinks) /\ UrlThrows(pageLinks[pageIdx])) =>
          /\ outcome' = NoOutcome /\ pc' = "page"
          /\ pageIdx' = pageIdx + 1 /\ pageLinks' = pageLinks
          /\ gets' = gets /\ linkIdx' = linkIdx /\ links' = links /\ resolved' = resolved
    ]_vars

\* C5: a top-level link's GET ended with a transport error, and the loop stands
\* at the next harvested link, which it will fetch.
C5_Witness ==
  /\ lastReply.what = "error"
  /\ pc = "links" /\ outcome = NoOutcome
  /\ linkIdx = 2 /\ Len(links) >= 2
  /\ ~IsMailtoOrAnchor(links[2])
  /\ resolved = <<[link |-> links[1], result |-> JsNull]>>

\* C6 (as claimed): whenever a request ends in FOUND, the value returned is a
\* JSON object or array.
C6_FoundIsObjectOrArray ==
  outcome.kind = "FOUND" => outcome.value.t \in {"object", "array"}

\* C7 (as claimed): if the JSON-classified attachment that is used parses to any
\* JSON value, the request ends in FOUND with that value and does not fall
\* through to the link strategy or to NotFound.
C7_AnyParsedValueIsFound ==
  attachmentJson # JsNull => (pc = "done" /\ outcome = Found("attachments", attachmentJson))

\* C8: no GET is issued for, and checkLinkForJson is never called with, a
\* harvested link that begins with "mailto:" or with "#".
C8_MailtoAndAnchorsNeverResolved ==
  /\ \A i \in 1..Len(gets) : gets[i].kind = "link" => ~IsMailtoOrAnchor(gets[i].url)
  /\ \A i \in 1..Len(resolved) : ~IsMailtoOrAnchor(resolved[i].link)
  /\ inflight.kind = "link" => ~IsMailtoOrAnchor(inflight.url)
  /\ pc \in {"awaitLink", "page", "awaitPage"} => ~IsMailtoOrAnchor(links[linkIdx])

\* C8: the loop has passed a mailto: link and a # link, and has fetched the link
\* harvested after them.
C8_Witness ==
  /\ \E i, j \in 1..Len(links) :
       /\ StartsWith(links[i], <<"mailto:">>) /\ StartsWith(links[j], <<"#">>)
       /\ i < linkIdx /\ j < linkIdx
  /\ Len(GetsOf("link")) = 1
  /\ pc = "done"

\* The awaited GET ends with its timeout.
TimeoutFires ==
  SourceReply(TimeoutError) \/ LinkReply(TimeoutError) \/ PageReply(TimeoutError)

\* C9 (as claimed): every GET that is awaited has a bounded timeout, so the
\* request goes on even when the remote server never answers.
C9_EveryAwaitTimesOut ==
  inflight.kind # "none" => (inflight.timeout > 0 /\ ENABLED TimeoutFires)

\* C10: when neither url nor path is given the request ends in BadRequest at the
\* controller: processEmail is not invoked, no file is read, no GET is issued,
\* and nothing of the request runs afterwards.
C10_BadInputStopsAtController ==
  [][/\ (pc = "extractJson" /\ query.url = <<>> /\ query.path = <<>>) =>
          /\ pc' = "done" /\ outcome' = BadRequestException("controller")
          /\ source' = <<>> /\ fsLog' = <<>> /\ gets' = <<>> /\ inflight' = NoRequest
     /\ pc # "done"
    ]_vars

\* C10: a request with neither url nor path has ended.
C10_Witness ==
  /\ pc = "done" /\ outcome = BadRequestException("controller")
  /\ query.url = <<>> /\ query.path = <<>>
  /\ fsLog = <<>> /\ gets = <<>>

\* The failures of reading and decoding the source.
FatalBy == {"getEmailContent", "simpleParser"}

\* C11: a failure to read the source (file missing, URL unreachable or answered
\* outside 2xx, read failure) or to decode the mail ends the request in the step
\* where it occurs, with a NotFound or BadRequest outcome: no attachment has been
\* scanned, no link harvested or fetched, and nothing runs afterwards.
C11_FatalErrorAborts ==
  [][/\ (pc = "awaitSource" /\ ~(lastReply'.what = "response" /\ lastReply'.status \in 200..299)) =>
          outcome' = BadRequestException("getEmailContent")
     /\ (pc = "getEmailContent" /\ fsLog' = <<"existsSync">>) =>
          outcome' = NotFoundException("getEmailContent")
     /\ (pc \in {"getEmailContent", "awaitSource", "simpleParser"} /\ pc' = "done") =>
          /\ outcome'.by \in FatalBy
          /\ outcome'.kind \in {"NotFound", "BadRequest"}
          /\ attachments' = <<>> /\ attachmentJson' = JsNull /\ warnings' = 0
          /\ links' = <<>> /\ resolved' = <<>>
          /\ GetsOf("link")' = <<>> /\ GetsOf("page")' = <<>>
          /\ inflight' = NoRequest
     /\ outcome'.by \in FatalBy => pc \in {"getEmailContent", "awaitSource", "simpleParser"}
     /\ outcome.by \notin FatalBy
    ]_vars

\* C11: the source URL could not be reached, and the request has ended.
C11_Witness ==
  /\ lastReply.what = "error"
  /\ pc = "done" /\ outcome = BadRequestException("getEmailContent")
  /\ gets = <<[url |-> source, kind |-> "source"]>>

\* C12 (as claimed): for a source that was read and decoded, NotFound is reported
\* only after the attachment scan has reported no match and every harvested link
\* that is not a mailto: or # link has been passed to checkLinkForJson and has
\* yielded nothing.
C12_NotFoundOnlyWhenExhausted ==
  outcome = NotFoundException("processEmail") =>
    /\ attachmentJson = JsNull
    /\ LinksOf(resolved) = Fetchable(Len(links))
    /\ \A i \in 1..Len(resolved) : ~Truthy(resolved[i].result)

\* C13: extraction is deterministic. From one state of a request, two steps that
\* read the same input (the same answer of the file system, the same decoded
\* mail, the same reply to the awaited GET, the same anchors of the page) lead to
\* the same state: the same fetches issued and the same outcome. Two runs on the
\* same mail with every URL answering identically therefore go through the same
\* states, step by step.
\* (The step that decodes the mail is stated apart, as the function of the decoded
\* mail that it is.)
C13_SameInputsSameRun ==
  [][IF pc = "simpleParser"
     THEN /\ drawn'.what = "mail"
          /\ attachments' = drawn'.v.attachments
          /\ pc' = IF drawn'.v.throws THEN "done" ELSE "attachments"
          /\ outcome' = IF drawn'.v.throws THEN BadRequestException("simpleParser") ELSE outcome
          /\ lastReply' = NoReply
          /\ UNCHANGED <<query, source, fsLog, gets, inflight, attachmentJson, warnings,
                         links, linkIdx, resolved, pageBase, pageLinks, pageIdx>>
     ELSE \E r \in {lastReply'}, d \in {drawn'}, n \in {vars'} :
            ~ENABLED (lastReply' = r /\ drawn' = d /\ Next /\ vars' # n)]_vars

\* C13: a request has ended after fetching the source, a link of the mail and a
\* link of that link's page.
C13_Witness ==
  /\ pc = "done" /\ outcome.kind = "FOUND"
  /\ Len(GetsOf("source")) = 1
  /\ Len(GetsOf("link")) = 2
  /\ Len(GetsOf("page")) = 2

\* A link of the fetched page that the chase fetches: its URL resolves and looks
\* like a json file.
IsPageCandidate(link) == ~UrlThrows(link) /\ LooksLikeJson(ResolveUrl(link, pageBase))

\* C14 (as claimed): the page chase reports "no match" for the page only after
\* every link of the page whose resolved URL ends in .json has been fetched: a
\* candidate that produces no usable value, such as one answered with status 200
\* and the body null, does not end the chase; and a chase that ends the request
\* returns the accepted candidate's value.
C14_ChaseExaminesEveryCandidate ==
  [][/\ (pc \in {"page", "awaitPage"} /\ pc' = "links") =>
          \A i \in (pageIdx + 1)..Len(pageLinks) : ~IsPageCandidate(pageLinks[i])
     /\ (pc = "awaitPage" /\ pc' = "done") =>
          /\ outcome' = Found("links", AxiosData(lastReply'.body))
          /\ Truthy(outcome'.value)
    ]_vars

\* C15: a response is accepted as the result, or taken as a page to chase, only
\* when its status is exactly 200. For any other status checkLinkForJson returns
\* null without chasing, and the page chase passes to the page's next link.
C15_OnlyStatus200 ==
  [][/\ (pc = "awaitLink" /\ lastReply'.what = "response" /\ lastReply'.status # 200) =>
          /\ pc' = "links" /\ linkIdx' = linkIdx + 1
          /\ resolved' = Append(resolved, [link |-> links[linkIdx], result |-> JsNull])
          /\ pageLinks' = <<>> /\ gets' = gets /\ outcome' = NoOutcome
     /\ (pc = "awaitPage" /\ lastReply'.what = "response" /\ lastReply'.status # 200) =>
          /\ pc' = "page" /\ pageIdx' = pageIdx + 1
          /\ resolved' = resolved /\ gets' = gets /\ outcome' = NoOutcome
     /\ (pc = "awaitLink" /\ pc' \in {"page", "done"}) =>
          (lastReply'.what = "response" /\ lastReply'.status = 200)
     /\ (pc = "awaitPage" /\ pc' \in {"links", "done"}) =>
          (lastReply'.what = "response" /\ lastReply'.status = 200)
    ]_vars

\* C15: a link of a fetched page was answered with status 201 and a JSON body,
\* and the chase stands at the page's next link.
C15_Witness ==
  /\ lastReply.what = "response" /\ lastReply.status = 201
  /\ Includes(lastReply.contentType, <<"application/json">>)
  /\ pc = "page" /\ pageIdx = 2 /\ Len(pageLinks) = 2
  /\ outcome = NoOutcome

\* The URL's text before its query string ends in ".json", in any case.
EndsInDotJson(url) ==
  LET path == SplitFirst(url, "?")
  IN  path # <<>> /\ path[Len(path)] \in {".json", ".JSON"}

\* The spec's example, on the host of the model: the href data/export.json?v=2
\* of the page https://h/landing.
ExampleHref == <<"data", "/", "export", ".json", "?", "v=2">>
ExampleResolved == <<"https://", "h", "/", "data", "/", "export", ".json", "?", "v=2">>

\* C16: in the page chase a link of the page is resolved against the page's URL,
\* and a GET is issued for it exactly when the resolved URL, without its query
\* string, ends in .json in any case; no other link of the page is fetched.
\* The href data/export.json?v=2 of the page https://h/landing is fetched as
\* https://h/data/export.json?v=2.
C16_OnlyJsonLookingPageLinks ==
  [][/\ (pc = "page" /\ pc' = "awaitPage") =>
          /\ gets' = Append(gets, [url |-> inflight'.url, kind |-> "page"])
          /\ EndsInDotJson(inflight'.url)
          /\ StartsWith(inflight'.url, <<"https://", "h", "/">>)
          /\ (pageLinks[pageIdx] = ExampleHref /\ pageBase = PageLink) =>
                inflight'.url = ExampleResolved
     /\ (pc = "page" /\ pc' = "page") =>
          /\ gets' = gets
          /\ pageLinks[pageIdx] \notin {ExampleHref, <<"/", "assets", "/", "out", ".JSON">>}
     /\ (pc # "page" /\ pc' = "awaitPage") => FALSE
    ]_vars

\* C16: on the page https://h/landing the link /about was passed over and the link
\* data/export.json?v=2 is being fetched at its resolved URL.
C16_Witness ==
  /\ pc = "awaitPage" /\ pageBase = PageLink
  /\ pageLinks = <<<<"/", "about">>, ExampleHref>>
  /\ GetsOf("page") = <<[url |-> ExampleResolved, kind |-> "page"]>>

\* C17: the chase is one hop deep. A GET goes to the source, to a link of the
\* mail's body, or to a link of a page; a page is the body of a reply to a link of
\* the mail's body with status 200, a content-type containing text/html and a
\* body that is text. The reply to a page link is never read for links, and each
\* link of the mail and each link of a page is fetched at most once.
C17_OneHopDeep ==
  [][/\ \A i \in 1..Len(gets') : gets'[i].kind \in {"source", "link", "page"}
     /\ (gets' # gets) =>
          /\ gets' = Append(gets, [url |-> inflight'.url, kind |-> inflight'.kind])
          /\ inflight'.kind = "source" => (pc = "getEmailContent" /\ inflight'.url = source)
          /\ inflight'.kind = "link" =>
               (pc = "links" /\ inflight'.url = links[linkIdx] /\ linkIdx' = linkIdx)
          /\ inflight'.kind = "page" =>
               /\ pc = "page" /\ pageIdx' = pageIdx /\ pageIdx \in 1..Len(pageLinks)
               /\ inflight'.url = ResolveUrl(pageLinks[pageIdx], pageBase)
               /\ pageBase = links[linkIdx]
     /\ (pc \notin {"page", "awaitPage"} /\ pc' = "page") =>
          /\ pc = "awaitLink" /\ pageBase' = links[linkIdx] /\ pageIdx' = 1
          /\ lastReply'.what = "response" /\ lastReply'.status = 200
          /\ Includes(lastReply'.contentType, <<"text/html">>)
          /\ AxiosData(lastReply'.body).t = "string"
          /\ drawn'.what = "page"
     /\ (pc \in {"page", "awaitPage"}) =>
          /\ drawn' = NoInput
          /\ pageLinks' = pageLinks \/ (pc' \in {"links", "done"} /\ pageLinks' = <<>>)
          /\ pageBase' = pageBase \/ (pc' \in {"links", "done"} /\ pageBase' = <<>>)
     /\ (pc = "awaitLink" /\ pc' = "links") => linkIdx' = linkIdx + 1
     /\ (pc = "awaitPage" /\ pc' = "page") => pageIdx' = pageIdx + 1
     /\ Len(GetsOf("source")') <= 1 /\ Len(GetsOf("link")') <= Len(links')
    ]_vars

\* C17: the request ended with the value of a page link, after three GETs: the
\* source, a link of the mail's body, a link of that link's page.
C17_Witness ==
  /\ pc = "done" /\ outcome.kind = "FOUND" /\ outcome.by = "links"
  /\ Len(gets) = 3
  /\ gets[1].kind = "source" /\ gets[2].kind = "link" /\ gets[3].kind = "page"

\* The link strings of the bodies in the order they occur: the href attributes
\* of the HTML body's anchors, then the URLs of the plain-text body.
Occurrences(html, text) ==
  (IF html.present THEN SelectSeq(html.hrefs, LAMBDA h : h # <<>>) ELSE <<>>) \o TextMatches(text)

FirstIndex(seq, x) == CHOOSE i \in 1..Len(seq) : seq[i] = x /\ \A j \in 1..(i - 1) : seq[j] # x

\* C18: the harvest yields each distinct link string of the bodies exactly once,
\* in the order of first occurrence with the HTML body's links before the
\* plain-text body's; and within one request no link string is passed to
\* checkLinkForJson, or fetched as a top-level link, more than once.
C18_EachDistinctLinkOnce ==
  [][/\ pc = "extractJsonFromLinks" =>
          LET occ == Occurrences(drawn'.v.html, drawn'.v.text)
          IN  /\ drawn'.what = "bodies"
              /\ {links'[i] : i \in 1..Len(links')} = {occ[i] : i \in 1..Len(occ)}
              /\ \A i, j \in 1..Len(links') :
                   i < j => FirstIndex(occ, links'[i]) < FirstIndex(occ, links'[j])
     /\ pc # "extractJsonFromLinks" => links' = links
     /\ \A i, j \in 1..Len(resolved') : i # j => resolved'[i].link # resolved'[j].link
     /\ \A i, j \in 1..Len(GetsOf("link")') :
          i # j => GetsOf("link")'[i].url # GetsOf("link")'[j].url
    ]_vars

\* C18: the harvest of a mail whose HTML body holds the same link twice and whose
\* text body holds it again: the link was harvested once.
C18_Witness ==
  /\ drawn.what = "bodies"
  /\ drawn.v.html.present /\ drawn.v.html.hrefs = <<JsonLink, JsonLink>>
  /\ TextMatches(drawn.v.text) = <<JsonLink>>
  /\ links = <<JsonLink>> /\ pc = "links"

\* C19: the entry point takes url when it is not empty and path otherwise, and
\* how the source is retrieved depends on that string alone: it is fetched with a
\* GET if and only if it starts with http:// or https://, and read from the file
\* system otherwise, whichever parameter carried it.
C19_RetrievalBySourceString ==
  [][/\ (pc = "extractJson" /\ pc' # "done") =>
          /\ source' = (IF query.url # <<>> THEN query.url ELSE query.path)
          /\ source' # <<>> /\ query' = NoQuery /\ pc' = "getEmailContent"
          /\ gets' = <<>> /\ fsLog' = <<>>
     /\ pc = "getEmailContent" =>
          IF source[1] \in {"http://", "https://"}
          THEN /\ gets' = <<[url |-> source, kind |-> "source"]>>
               /\ fsLog' = <<>> /\ pc' = "awaitSource"
          ELSE /\ gets' = <<>>
               /\ fsLog' \in {<<"existsSync">>, <<"existsSync", "readFileSync">>}
               /\ pc' \in {"done", "simpleParser"}
     /\ pc \notin {"extractJson", "getEmailContent"} =>
          (fsLog' = fsLog /\ GetsOf("source")' = GetsOf("source"))
    ]_vars

\* C19: a source starting with http://, which only the path parameter carries,
\* is being fetched over the network, and no file was read.
C19_Witness ==
  /\ source = HttpSource
  /\ pc = "awaitSource" /\ inflight.url = HttpSource
  /\ fsLog = <<>>

====
